---- MODULE Spec2Model ----
(***************************************************************************)
(* A model of the ndb codec (package ndb: ndb.go, read.go, write.go).      *)
(*                                                                         *)
(* Byte strings are sequences of one-byte characters.  Every character of  *)
(* the model is a one-byte rune, except BadByte, a byte that is not valid  *)
(* UTF-8 on its own and that ReadRune reports as (RuneError, 1).           *)
(***************************************************************************)
EXTENDS Integers, Sequences, FiniteSets, TLC

VARIABLES
    d,      \* the Decoder: [pairbuf, finfo, havemulti, attrs, multi]
    rd,     \* the Decoder's line source d.src: [n, eof]
    e,      \* the Encoder: [start, out]; out is the content of the sink
    dst,    \* the value v handed to Decode; LexSpec: what err.Error() returned
    add,    \* decodeSlice's element buffer `add`
    pc,     \* where the call in progress stands
    err,    \* the error the last call returned
    line,   \* the line last handed to parseLine
    arg,    \* the input of the last call (tuples of the line, value encoded)
    res,    \* the pairs the last getPairs returned; EncSpec: the error of each
            \* element of the last Encode
    want,   \* decodeSlice: the elements decoded without error, in order;
            \* EncSpec: [lines, failed], the elements encoded without error so
            \* far and whether one failed
    calls   \* EncSpec: the number of Encode calls made

vars == <<d, rd, e, dst, add, pc, err, line, arg, res, want, calls>>

----------------------------------------------------------------------------
(* Bounds of the model.                                                    *)

MaxLineLen == 3     \* LexSpec: lines over LexAlphabet have at most this length
MaxValLen == 5      \* LexSpec: a last tuple "a=" followed by at most this many value bytes
MaxLines == 2       \* Spec: the line source supplies at most this many lines
MaxTuples == 2      \* Spec: a supplied line has at most this many tuples, or one more over LongTuples
MaxAppend == 3      \* Spec: decodeSlice is followed up to this many appended elements
MaxEncodes == 2     \* EncSpec: Encode is called at most this many times
MaxElems == 2       \* EncSpec: an encoded sequence has at most this many elements
MaxTextLen == 3     \* RoundTripSpec: a value text has at most this many bytes

----------------------------------------------------------------------------
(* Characters and their Unicode classes.                                   *)

Quote == "'"
Equals == "="
Space == " "
NL == "\n"
Dash == "-"
BadByte == "\\xFF"
RuneError == "\\uFFFD"

Letters == {"a", "b", "c", "N", "S"}
Numbers == {"0", "1", "2", "3", "4", "5", "6", "7", "8", "9"}

IsSpace(r) == r \in {Space, NL}
IsLetter(r) == r \in Letters
IsNumber(r) == r \in Numbers

ReadRune(b) == IF b = BadByte THEN [r |-> RuneError, sz |-> 1] ELSE [r |-> b, sz |-> 1]

Strings(alphabet, n) == UNION {[1..k -> alphabet] : k \in 0..n}

Count(s, c) == Cardinality({i \in DOMAIN s : s[i] = c})

\* line[lo:hi] of Go, defined when 0 <= lo <= hi <= len(line); it panics otherwise
SliceOK(s, lo, hi) == 0 <= lo /\ lo <= hi /\ hi <= Len(s)
Slice(s, lo, hi) == SubSeq(s, lo + 1, hi)

\* bytes.Replace(s, "''", "'", -1): non-overlapping, left to right
RECURSIVE Unquote(_)
Unquote(s) ==
    IF Len(s) < 2 THEN s
    ELSE IF s[1] = Quote /\ s[2] = Quote
         THEN <<Quote>> \o Unquote(SubSeq(s, 3, Len(s)))
         ELSE <<s[1]>> \o Unquote(Tail(s))

----------------------------------------------------------------------------
(* Errors.                                                                 *)

Nil == [kind |-> "nil", msg |-> "", offset |-> 0]
EOF == [kind |-> "EOF", msg |-> "", offset |-> 0]
Panic(what) == [kind |-> "panic", msg |-> what, offset |-> 0]
TypeError(typ) == [kind |-> "TypeError", msg |-> typ, offset |-> 0]
NumError(what) == [kind |-> "NumError", msg |-> what, offset |-> 0]
SyntaxError(msg, offset) == [kind |-> "SyntaxError", msg |-> msg, offset |-> offset]

min(a, b) == IF a < b THEN a ELSE b

\* SyntaxError.Error's second loop: end moves right while Data[start:end] is not valid
RECURSIVE errorEnd(_, _, _)
errorEnd(data, start, end) ==
    IF (\E i \in (start + 1)..end : data[i] = BadByte) /\ end < Len(data)
    THEN errorEnd(data, start, end + 1)
    ELSE end

\* SyntaxError.Error for an error that carries the line data.  Every byte of the
\* model starts a rune, so the first loop reads Data[start] once and leaves start
\* where it is; the read is outside the line when start is not below its length.
Error(er, data) ==
    IF er.offset < 0 \/ er.offset >= Len(data)
    THEN Panic("index out of range")
    ELSE [kind |-> "text", msg |-> er.msg, offset |-> er.offset,
          at |-> SubSeq(data, er.offset + 1,
                        errorEnd(data, er.offset, min(er.offset + 10, Len(data))))]

errBadAttr(offset) == SyntaxError("Invalid attribute name", offset)
errUnterminated(offset) == SyntaxError("Unterminated quoted string", offset)
errBadUnicode(offset) == SyntaxError("Invalid UTF8 input", offset)
errMissingSpace(offset) == SyntaxError("Missing white space between tuples", offset)

----------------------------------------------------------------------------
(* The Decoder and its tokenizer.                                          *)

NoEncoder == [start |-> FALSE, out |-> <<>>]
NoSource == [n |-> 0, eof |-> FALSE]

NewDecoder ==
    [pairbuf |-> <<>>, finfo |-> <<>>, havemulti |-> FALSE, attrs |-> {}, multi |-> {}]

\* reset deletes from attrs only the names that are in multi
reset(dec) ==
    [dec EXCEPT !.pairbuf = <<>>,
                !.finfo = <<>>,
                !.attrs = @ \ dec.multi,
                !.multi = {},
                !.havemulti = FALSE]

scanNone == 0
scanAttr == 1
scanValue == 2
scanValueStart == 3
scanQuoteStart == 4
scanQuoteValue == 5
scanQuoteClose == 6

push(s, n) == Append(s, n)
top(s) == IF Len(s) > 0 THEN s[Len(s)] ELSE scanNone
pop(s) == IF Len(s) > 0 THEN SubSeq(s, 1, Len(s) - 1) ELSE s

NoPair == [attr |-> <<>>, val |-> <<>>]

\* the attribute bookkeeping parseLine does at each of its three attribute ends
noteAttr(dec, attr) ==
    IF attr \in dec.attrs
    THEN [dec EXCEPT !.havemulti = TRUE, !.multi = @ \cup {attr}]
    ELSE [dec EXCEPT !.attrs = @ \cup {attr}]

\* the `if esc { bytes.Replace }` every value end applies
finishVal(val, esc) == IF esc THEN Unquote(val) ELSE val

\* the rune classes an attribute may continue with
attrRune(r) == IsLetter(r) \/ IsNumber(r)

\* the scanner's locals at the top of the loop
startScan(dec) ==
    [state |-> <<>>, beg |-> 0, offset |-> 0, esc |-> FALSE, add |-> NoPair,
     d |-> dec, err |-> Nil]

fail(s, error) == [s EXCEPT !.err = error]

inNone(s, r) ==
    IF IsSpace(r) THEN s
    ELSE IF IsLetter(r) \/ IsNumber(r)
         THEN [s EXCEPT !.state = push(@, scanAttr), !.beg = s.offset]
         ELSE fail(s, errBadAttr(s.offset))

inAttr(s, ln, r) ==
    LET attr == Slice(ln, s.beg, s.offset) IN
    IF IsSpace(r)
    THEN [s EXCEPT !.d = noteAttr([s.d EXCEPT !.pairbuf =
                                      Append(@, [s.add EXCEPT !.attr = attr])], attr),
                   !.add = NoPair, !.esc = FALSE, !.state = pop(@)]
    ELSE IF r = Equals
         THEN [s EXCEPT !.add = [@ EXCEPT !.attr = attr],
                        !.d = noteAttr(@, attr),
                        !.state = push(pop(@), scanValueStart)]
         ELSE IF ~attrRune(r) THEN fail(s, errBadAttr(s.offset))
              ELSE s

\* case scanValue; note that esc is left as it is
inValue(s, ln, r) ==
    IF IsSpace(r)
    THEN LET val == finishVal(Slice(ln, s.beg, s.offset), s.esc) IN
         [s EXCEPT !.state = pop(@),
                   !.d = [@ EXCEPT !.pairbuf = Append(@, [s.add EXCEPT !.val = val])],
                   !.add = NoPair]
    ELSE s

\* case scanValueStart, which falls through to scanValue unless r is a quote
inValueStart(s, ln, r) ==
    LET s1 == [s EXCEPT !.beg = s.offset, !.state = push(pop(@), scanValue)] IN
    IF r = Quote THEN [s1 EXCEPT !.state = push(@, scanQuoteStart)]
    ELSE inValue(s1, ln, r)

\* case scanQuoteClose with the value cut at offset, one byte late
inQuoteCloseLate(s, ln, r) ==
    IF r = Quote THEN [s EXCEPT !.esc = TRUE, !.state = push(pop(@), scanQuoteValue)]
    ELSE IF IsSpace(r)
         THEN [s EXCEPT !.state = pop(pop(@)),
                        !.d = [@ EXCEPT !.pairbuf =
                                  Append(@, [s.add EXCEPT !.val =
                                      finishVal(Slice(ln, s.beg, s.offset), s.esc)])],
                        !.add = NoPair, !.esc = FALSE]
         ELSE fail([s EXCEPT !.state = pop(@)], errMissingSpace(s.offset))

inQuoteClose(s, ln, r) ==
    LET s1 == [s EXCEPT !.state = pop(@)] IN
    IF r = Quote THEN [s1 EXCEPT !.esc = TRUE, !.state = push(@, scanQuoteValue)]
    ELSE IF IsSpace(r)
         THEN IF ~SliceOK(ln, s.beg, s.offset - 1)
              THEN fail(s1, Panic("slice bounds out of range"))
              ELSE LET val == finishVal(Slice(ln, s.beg, s.offset - 1), s.esc) IN
                   [s1 EXCEPT !.state = pop(@),
                              !.d = [@ EXCEPT !.pairbuf =
                                         Append(@, [s.add EXCEPT !.val = val])],
                              !.add = NoPair, !.esc = FALSE]
         ELSE fail(s1, errMissingSpace(s.offset))

\* case scanQuoteStart with the `esc = true` of its else branch left out
inQuoteStartNoEsc(s, r) ==
    IF r # Quote
    THEN [s EXCEPT !.beg = @ + 1, !.state = push(pop(pop(@)), scanQuoteValue)]
    ELSE [s EXCEPT !.state = pop(@)]

inQuoteStart(s, r) ==
    LET s1 == [s EXCEPT !.state = pop(@)] IN
    IF r # Quote
    THEN [s1 EXCEPT !.beg = @ + 1, !.state = push(pop(@), scanQuoteValue)]
    ELSE [s1 EXCEPT !.esc = TRUE]

inQuoteValue(s, r) ==
    IF r = Quote THEN [s EXCEPT !.state = push(pop(@), scanQuoteClose)]
    ELSE IF r = NL THEN fail(s, errUnterminated(s.offset))
         ELSE s

\* one turn of parseLine's loop, without the final offset += sz
scanRune(s, ln, rune) ==
    LET st == top(s.state) IN
    IF rune.r = RuneError /\ rune.sz = 1 THEN fail(s, errBadUnicode(s.offset))
    ELSE CASE st = scanNone -> inNone(s, rune.r)
           [] st = scanAttr -> inAttr(s, ln, rune.r)
           [] st = scanValueStart -> inValueStart(s, ln, rune.r)
           [] st = scanValue -> inValue(s, ln, rune.r)
           [] st = scanQuoteClose -> inQuoteClose(s, ln, rune.r)
           [] st = scanQuoteStart -> inQuoteStart(s, rune.r)
           [] st = scanQuoteValue -> inQuoteValue(s, rune.r)

\* parseLine's loop: it ends at the end of the line or at the first error
RECURSIVE scanLoop(_, _)
RECURSIVE scanNext(_, _, _)
scanLoop(s, ln) ==
    IF s.offset >= Len(ln) THEN s
    ELSE scanNext(scanRune(s, ln, ReadRune(ln[s.offset + 1])), ln,
                  ReadRune(ln[s.offset + 1]).sz)

\* the end of one turn: s1 is the state after the switch, sz the size of the rune read
scanNext(s1, ln, sz) ==
    IF s1.err # Nil THEN s1
    ELSE scanLoop([s1 EXCEPT !.offset = @ + sz], ln)

\* the value end shared by the last three cases of the final switch
endValue(s, ln, beg, offset) ==
    IF ~SliceOK(ln, beg, offset)
    THEN fail(s, Panic("slice bounds out of range"))
    ELSE LET val == finishVal(Slice(ln, beg, offset), s.esc) IN
         [s EXCEPT !.beg = beg, !.offset = offset,
                   !.d = [@ EXCEPT !.pairbuf = Append(@, [s.add EXCEPT !.val = val])]]

\* the switch after the loop
scanEnd(s, ln) ==
    LET st == top(s.state) IN
    CASE st \in {scanQuoteValue, scanQuoteStart} -> fail(s, errUnterminated(s.offset))
      [] st = scanAttr ->
            LET attr == Slice(ln, s.beg, s.offset) IN
            [s EXCEPT !.d = [noteAttr(@, attr) EXCEPT !.pairbuf =
                                 Append(@, [s.add EXCEPT !.attr = attr])]]
      [] st = scanValueStart -> endValue(s, ln, s.offset, s.offset - 1)
      [] st = scanQuoteClose -> endValue(s, ln, s.beg, s.offset - 1)
      [] st = scanValue -> endValue(s, ln, s.beg, s.offset)
      [] OTHER -> s

\* what parseLine returns from final scanner state f; the line ended in state last
lineResult(f, last) ==
    [d |-> f.d, pairs |-> IF f.err = Nil THEN f.d.pairbuf ELSE <<>>, err |-> f.err,
     last |-> last]

\* parseLine after its loop, which left the scanner in state s
afterLoop(s, ln) ==
    IF s.err # Nil THEN lineResult(s, top(s.state))
    ELSE lineResult(scanEnd(s, ln), top(s.state))

\* parseLine: [d: the Decoder afterwards, pairs, err, last: the state the line ended in]
parseLine(dec, ln) == afterLoop(scanLoop(startScan(dec), ln), ln)

----------------------------------------------------------------------------
(* Types and values of the binder.  A type is named by its Go spelling.    *)
(* cfg is the Record of the model: netCfg of the tests (an aliased text    *)
(* slot, an aliased sequence slot, a numeric slot) with one more text      *)
(* slot, S; Native and S carry no alias.  Strings, byte slices and         *)
(* sequences are sequences; a map is a function from key text to value; a  *)
(* nil slice or map is the empty one.                                      *)

EmptyMap == [k \in {} |-> 0]

cfgFields ==
    << [Name |-> <<"H">>, tag |-> <<"a", Dash, "a">>, typ |-> "string"],
       [Name |-> <<"V">>, tag |-> <<"b">>, typ |-> "[]int8"],
       [Name |-> <<"N">>, tag |-> <<>>, typ |-> "int8"],
       [Name |-> <<"S">>, tag |-> <<>>, typ |-> "string"] >>

\* seqCfg is a Record for the Encoder whose first and last slots are sequences
seqFields ==
    << [Name |-> <<"V">>, tag |-> <<"b">>, typ |-> "[]int8"],
       [Name |-> <<"N">>, tag |-> <<>>, typ |-> "int8"],
       [Name |-> <<"S">>, tag |-> <<>>, typ |-> "[]string"] >>

\* typ.Field(i), for every i, of Record type t
Fields(t) == IF t = "seqCfg" THEN seqFields ELSE cfgFields

MapTypes == {"map[string]string", "map[string]int8", "map[string][]string"}

Kind(t) ==
    CASE t = "string" -> "string"
      [] t = "int8" -> "int"
      [] t = "uint8" -> "uint"
      [] t \in {"[]int8", "[]string", "[]byte", "[]cfg"} -> "slice"
      [] t \in MapTypes -> "map"
      [] t \in {"cfg", "seqCfg"} -> "struct"
      [] OTHER -> "invalid"

Elem(t) ==
    CASE t = "[]int8" -> "int8"
      [] t = "[]string" -> "string"
      [] t = "[]byte" -> "uint8"
      [] t = "[]cfg" -> "cfg"
      [] t = "map[string]string" -> "string"
      [] t = "map[string]int8" -> "int8"
      [] t = "map[string][]string" -> "[]string"
      [] OTHER -> "invalid"

Bits(t) == IF t \in {"int8", "uint8"} THEN 8 ELSE 64

Zero(t) ==
    CASE Kind(t) \in {"int", "uint"} -> 0
      [] Kind(t) = "map" -> EmptyMap
      [] Kind(t) = "struct" -> [i \in DOMAIN cfgFields |-> IF Kind(cfgFields[i].typ) = "int"
                                                          THEN 0 ELSE <<>>]
      [] OTHER -> <<>>

DigitVal(c) == CHOOSE n \in 0..9 : ToString(n) = c

RECURSIVE Atoi(_)
Atoi(s) == IF Len(s) = 0 THEN 0 ELSE 10 * Atoi(SubSeq(s, 1, Len(s) - 1)) + DigitVal(s[Len(s)])

AllDigits(s) == Len(s) > 0 /\ \A i \in DOMAIN s : s[i] \in Numbers

\* 2^(bits-1); the texts of the model are far shorter than a 64 bit number
IntLimit(bits) == IF bits = 8 THEN 128 ELSE 1000000000

\* strconv.ParseInt(s, 10, bits): [err, val]
ParseInt(s, bits) ==
    LET neg == Len(s) > 0 /\ s[1] = Dash
        digits == IF Len(s) > 0 /\ s[1] \in {Dash, "+"} THEN Tail(s) ELSE s
    IN  IF ~AllDigits(digits) THEN [err |-> NumError("invalid syntax"), val |-> 0]
        ELSE LET n == Atoi(digits) IN
             IF (~neg /\ n >= IntLimit(bits)) \/ (neg /\ n > IntLimit(bits))
             THEN [err |-> NumError("value out of range"), val |-> 0]
             ELSE [err |-> Nil, val |-> IF neg THEN 0 - n ELSE n]

\* strconv.ParseUint(s, 10, bits): [err, val]
ParseUint(s, bits) ==
    IF ~AllDigits(s) THEN [err |-> NumError("invalid syntax"), val |-> 0]
    ELSE IF Atoi(s) >= 2 * IntLimit(bits)
         THEN [err |-> NumError("value out of range"), val |-> 0]
         ELSE [err |-> Nil, val |-> Atoi(s)]

\* storeVal on a destination of type t: [err, val], val being what dst then holds
storeVal(t, src) ==
    CASE Kind(t) = "int" -> ParseInt(src, Bits(t))
      [] Kind(t) = "uint" -> ParseUint(src, Bits(t))
      [] Kind(t) = "string" -> [err |-> Nil, val |-> src]
      [] Kind(t) = "slice" ->
            IF Elem(t) = "uint8" THEN [err |-> Nil, val |-> src]
            ELSE [err |-> Panic("reflect.Value.SetBytes of non-byte slice"), val |-> <<>>]
      [] OTHER -> [err |-> TypeError(t), val |-> <<>>]

SetMapIndex(m, k, v) == [x \in DOMAIN m \cup {k} |-> IF x = k THEN v ELSE m[x]]

\* the name -> slot index saveStruct builds: the alias if there is one, else the name
fieldKey(f) == IF f.tag # <<>> THEN f.tag ELSE f.Name

buildFinfo(fields) ==
    [k \in {fieldKey(fields[i]) : i \in DOMAIN fields} |->
        CHOOSE i \in DOMAIN fields :
            /\ fieldKey(fields[i]) = k
            /\ \A j \in DOMAIN fields : fieldKey(fields[j]) = k => j <= i]

\* the pair loop of saveStruct from pair i on: [v, err]
RECURSIVE structPairs(_, _, _, _, _)
structPairs(dec, pairs, i, val, fields) ==
    IF i > Len(pairs) THEN [v |-> val, err |-> Nil]
    ELSE LET p == pairs[i] IN
         IF p.attr \notin DOMAIN dec.finfo THEN structPairs(dec, pairs, i + 1, val, fields)
         ELSE LET id == dec.finfo[p.attr]
                  ft == fields[id].typ
              IN  IF p.attr \in dec.multi
                  THEN IF Kind(ft) # "slice" THEN [v |-> val, err |-> TypeError(ft)]
                       ELSE LET r == storeVal(Elem(ft), p.val) IN
                            IF r.err # Nil THEN [v |-> val, err |-> r.err]
                            ELSE structPairs(dec, pairs, i + 1,
                                             [val EXCEPT ![id] = Append(@, r.val)], fields)
                  ELSE LET r == storeVal(ft, p.val) IN
                       IF r.err # Nil THEN [v |-> val, err |-> r.err]
                       ELSE structPairs(dec, pairs, i + 1,
                                        [val EXCEPT ![id] = r.val], fields)

saved(dec, r) == [d |-> dec, v |-> r.v, err |-> r.err]

\* saveStruct, with finfo already filled in
structSave(d1, pairs, val, fields) == saved(d1, structPairs(d1, pairs, 1, val, fields))

\* saveStruct: [d, v, err]
saveStruct(dec, pairs, val, fields) ==
    structSave([dec EXCEPT !.finfo = buildFinfo(fields)], pairs, val, fields)

\* the pair loops of saveMap from pair i on (the key is text: storing it cannot fail)
RECURSIVE mapPairs(_, _, _, _, _)
mapPairs(multiple, pairs, i, val, t) ==
    IF i > Len(pairs) THEN [v |-> val, err |-> Nil]
    ELSE LET p == pairs[i]
             r == storeVal(IF multiple THEN Elem(Elem(t)) ELSE Elem(t), p.val)
         IN  IF r.err # Nil THEN [v |-> val, err |-> r.err]
             ELSE IF multiple
                  THEN LET slot == IF p.attr \in DOMAIN val THEN val[p.attr] ELSE <<>> IN
                       mapPairs(multiple, pairs, i + 1,
                                SetMapIndex(val, p.attr, Append(slot, r.val)), t)
                  ELSE mapPairs(multiple, pairs, i + 1, SetMapIndex(val, p.attr, r.val), t)

\* saveMap without the Repeated-Mapping variant: every pair overwrites its key
saveMapSingle(dec, pairs, val, t) == saved(dec, mapPairs(FALSE, pairs, 1, val, t))

\* saveMap: [d, v, err]
saveMap(dec, pairs, val, t) ==
    IF dec.havemulti /\ Kind(Elem(t)) # "slice"
    THEN [d |-> dec, v |-> val, err |-> TypeError(t)]
    ELSE saved(dec, mapPairs(dec.havemulti, pairs, 1, val, t))

----------------------------------------------------------------------------
(* The line source and the single-line decode path.                        *)
(* The source answers a read with [eof, line]: the end of the input, or    *)
(* the bytes of the next logical line.                                     *)

tupleBytes(t) == t.attr \o <<Equals>> \o t.val

RECURSIVE lineBytes(_)
lineBytes(ts) ==
    IF Len(ts) = 0 THEN <<>>
    ELSE IF Len(ts) = 1 THEN tupleBytes(ts[1])
         ELSE tupleBytes(ts[1]) \o <<Space>> \o lineBytes(Tail(ts))

\* getPairs once the source has supplied line ln and parseLine has returned p
lineRead(p, src, ln) ==
    [d |-> p.d, rd |-> [src EXCEPT !.n = @ + 1], pairs |-> p.pairs, err |-> p.err,
     line |-> ln]

\* getPairs when the source answers inp, [eof, line]: [d, rd, pairs, err, line]
getPairs(dec, src, inp) ==
    IF inp.eof
    THEN [d |-> dec, rd |-> [src EXCEPT !.eof = TRUE], pairs |-> <<>>, err |-> EOF,
          line |-> <<>>]
    ELSE lineRead(parseLine(reset(dec), inp.line), src, inp.line)

\* what Decode hands back: getPairs' result g and the result s of the save
decoded(g, s) ==
    [d |-> s.d, rd |-> g.rd, v |-> s.v, err |-> s.err, pairs |-> g.pairs, line |-> g.line]

\* Decode after getPairs returned g: the switch on the destination's kind
saveInto(g, t, val) ==
    IF g.err # Nil THEN decoded(g, [d |-> g.d, v |-> val, err |-> g.err])
    ELSE CASE Kind(t) = "map" -> decoded(g, saveMap(g.d, g.pairs, val, t))
           [] Kind(t) = "struct" -> decoded(g, saveStruct(g.d, g.pairs, val, cfgFields))
           [] OTHER -> decoded(g, [d |-> g.d, v |-> val, err |-> TypeError("*" \o t)])

\* Decode of a pointer to a value val of type t that is no slice: [d, rd, v, err, pairs, line]
decodeOne(dec, src, inp, t, val) == saveInto(getPairs(dec, src, inp), t, val)

----------------------------------------------------------------------------
(* Spec: one Decoder over a line source, and successive Decode calls with  *)
(* one destination.  decodeSlice is followed one turn of its loop at a     *)
(* time, because the loop need not end.                                    *)

SrcAttrs == {<<"a", Dash, "a">>, <<"b">>, <<"N">>, <<"S">>, <<"$">>}
SrcVals == {<<"1">>, <<"a">>}
SrcTuples == {[attr |-> a, val |-> v] : a \in SrcAttrs, v \in SrcVals}
\* longer lines over fewer tuples, after multiMap of the tests: a name that repeats
\* beside one that does not
LongTuples ==
    {[attr |-> <<"b">>, val |-> <<"1">>], [attr |-> <<"b">>, val |-> <<"a">>],
     [attr |-> <<"S">>, val |-> <<"a">>]}
SrcLines ==
    UNION {[1..k -> SrcTuples] : k \in 0..MaxTuples} \cup [1..(MaxTuples + 1) -> LongTuples]

EOFInput == [eof |-> TRUE, tuples |-> <<>>]

\* the source's answer for input inp: the tuples joined by one space
Read(inp) == [eof |-> inp.eof, line |-> lineBytes(inp.tuples)]

\* what ReadContinuedLineBytes may return next
Inputs(src) ==
    IF src.eof \/ src.n >= MaxLines THEN {EOFInput}
    ELSE {EOFInput} \cup {[eof |-> FALSE, tuples |-> ts] : ts \in SrcLines}

DstTypes == {"cfg", "[]cfg", "int8"} \cup MapTypes

Init ==
    /\ d = NewDecoder
    /\ rd = NoSource
    /\ dst \in {[typ |-> t, v |-> Zero(t)] : t \in DstTypes}
    /\ add = <<>>
    /\ pc = "idle"
    /\ err = Nil
    /\ line = <<>>
    /\ arg = EOFInput
    /\ res = <<>>
    /\ want = <<>>
    /\ e = NoEncoder
    /\ calls = 0

after(error) == IF error.kind = "panic" THEN "panicked" ELSE "returned"

\* what a Decode that handed back r leaves behind
DecodeLeaves(r, inp) ==
    /\ d' = r.d
    /\ rd' = r.rd
    /\ dst' = [dst EXCEPT !.v = r.v]
    /\ err' = r.err
    /\ res' = r.pairs
    /\ line' = r.line
    /\ arg' = inp

\* the state after a Decode that handed back r
DecodeReturns(r, inp) == DecodeLeaves(r, inp) /\ pc' = after(r.err)

\* d.Decode(&dst) for a destination that is no slice
Decode ==
    /\ pc \in {"idle", "returned"}
    /\ Kind(dst.typ) # "slice"
    /\ \E inp \in Inputs(rd) : DecodeReturns(decodeOne(d, rd, Read(inp), dst.typ, dst.v), inp)
    /\ UNCHANGED <<e, add, want, calls>>

\* d.Decode(&dst) for a slice: decodeSlice up to its loop
decodeSliceBegin ==
    /\ pc \in {"idle", "returned"}
    /\ Kind(dst.typ) = "slice"
    /\ add' = Zero(Elem(dst.typ))
    /\ err' = Nil
    /\ pc' = "loop"
    /\ UNCHANGED <<d, rd, e, dst, line, arg, res, want, calls>>

\* the loop condition as written: the body runs while Decode returned an error
loopGoesOn(error) == error # Nil

\* the state after the loop's Decode(add) handed back r
LoopTurn(r, inp) ==
    /\ d' = r.d
    /\ rd' = r.rd
    /\ add' = r.v
    /\ res' = r.pairs
    /\ line' = r.line
    /\ arg' = inp
    /\ want' = IF r.err = Nil THEN Append(want, r.v) ELSE want
    /\ IF r.err.kind = "panic"
       THEN /\ pc' = "panicked" /\ err' = r.err /\ dst' = dst
       ELSE IF loopGoesOn(r.err)
            THEN /\ dst' = [dst EXCEPT !.v = Append(@, r.v)]
                 /\ err' = r.err
                 /\ pc' = "loop"
            ELSE /\ dst' = dst
                 /\ err' = Nil
                 /\ pc' = "returned"

\* one Decode(add) of decodeSlice's loop, then its body or the return
decodeSliceStep ==
    /\ pc = "loop"
    /\ Len(dst.v) < MaxAppend
    /\ \E inp \in Inputs(rd) : LoopTurn(decodeOne(d, rd, Read(inp), Elem(dst.typ), add), inp)
    /\ UNCHANGED <<e, calls>>

Next == Decode \/ decodeSliceBegin \/ decodeSliceStep

Spec == Init /\ [][Next]_vars

----------------------------------------------------------------------------
(* MapSpec: one Decoder and one Mapping, as TestMultiMap decodes multiMap:  *)
(* a Decode into the Mapping as it was made, or into the Mapping an        *)
(* earlier Decode of the same Decoder has filled.                          *)

MapLines == UNION {[1..k -> LongTuples] : k \in 0..(MaxTuples + 1)}
MapInputs == {[eof |-> FALSE, tuples |-> ts] : ts \in MapLines}

MapInit ==
    /\ d = NewDecoder
    /\ rd = NoSource
    /\ dst \in {[typ |-> t, v |-> Zero(t)] : t \in MapTypes}
    /\ pc = "idle"
    /\ err = Nil
    /\ line = <<>>
    /\ arg = EOFInput
    /\ res = <<>>
    /\ add = <<>> /\ want = <<>> /\ e = NoEncoder /\ calls = 0

filled(error) == IF error.kind = "panic" THEN "panicked" ELSE "filled"

\* the state after the earlier Decode handed back r
FillReturns(r, inp) == DecodeLeaves(r, inp) /\ pc' = filled(r.err)

\* an earlier d.Decode(&dst)
MapFill ==
    /\ pc = "idle"
    /\ \E inp \in MapInputs : FillReturns(decodeOne(d, rd, Read(inp), dst.typ, dst.v), inp)
    /\ UNCHANGED <<e, add, want, calls>>

\* d.Decode(&dst)
MapDecode ==
    /\ pc \in {"idle", "filled"}
    /\ \E inp \in MapInputs : DecodeReturns(decodeOne(d, rd, Read(inp), dst.typ, dst.v), inp)
    /\ UNCHANGED <<e, add, want, calls>>

MapNext == MapFill \/ MapDecode

MapSpec == MapInit /\ [][MapNext]_vars

----------------------------------------------------------------------------
(* LexSpec: the tokenizer alone, as Test_parsing drives it: a fresh         *)
(* Decoder over one line, then getPairs.                                   *)

LexAlphabet == {"a", "1", Dash, Equals, Quote, Space, NL, "$", BadByte}
ValAlphabet == {"a", Quote, Space, NL, "$"}

\* the tuples that may stand before the last one: none, a plain value, a value that
\* begins with an escaped quote, a quoted value
LexPrefixes ==
    {<<>>,
     <<"a", Equals, "a", Space>>,
     <<"a", Equals, Quote, Quote, Space>>,
     <<"a", Equals, Quote, "a", Quote, Space>>}

LexLines ==
    Strings(LexAlphabet, MaxLineLen)
        \cup {p \o <<"a", Equals>> \o w : p \in LexPrefixes, w \in Strings(ValAlphabet, MaxValLen)}

LexInit ==
    /\ line \in LexLines
    /\ d = NewDecoder
    /\ pc = "ready"
    /\ err = Nil
    /\ res = <<>>
    /\ rd = NoSource /\ e = NoEncoder /\ dst = <<>> /\ add = <<>>
    /\ arg = EOFInput /\ want = <<>> /\ calls = 0

\* the state after parseLine returned p
Lexed(p) ==
    /\ d' = p.d
    /\ res' = p.pairs
    /\ err' = p.err

\* getPairs on the one line of the input
LexGetPairs ==
    /\ pc = "ready"
    /\ Lexed(parseLine(reset(d), line))
    /\ pc' = "lexed"
    /\ UNCHANGED <<rd, e, dst, add, line, arg, want, calls>>

\* err.Error() on the SyntaxError getPairs returned
LexError ==
    /\ pc = "lexed"
    /\ err.kind = "SyntaxError"
    /\ dst' = Error(err, line)
    /\ pc' = IF Error(err, line).kind = "panic" THEN "panicked" ELSE "rendered"
    /\ UNCHANGED <<d, rd, e, add, err, line, arg, res, want, calls>>

LexNext == LexGetPairs \/ LexError

LexSpec == LexInit /\ [][LexNext]_vars

----------------------------------------------------------------------------
(* Claims about the decoder, under Spec and MapSpec.                        *)

\* the attribute names that occur more than once among the tuples ts
Repeated(ts) ==
    {ts[i].attr : i \in {i \in DOMAIN ts : \E j \in DOMAIN ts : j # i /\ ts[j].attr = ts[i].attr}}

\* the last getPairs read a line and parseLine tokenized all of it
LineTokenized == ~arg.eof /\ pc # "idle" /\ err.kind # "SyntaxError"

\* C1: whenever a Decode has tokenized a line, the names the Decoder treats as
\* repeated (d.multi, and d.havemulti as "some name repeated") are exactly the
\* names that occur more than once in that line, whatever the lines before held.
C1_MultiIsOfThisLine ==
    LineTokenized =>
        /\ d.multi = Repeated(arg.tuples)
        /\ d.havemulti = (Repeated(arg.tuples) # {})

\* C2: when Decode into a sequence returns without error, every line of the input
\* was decoded (the source is at its end) and the destination holds one element
\* per line decoded without error, in input order.
C2_SliceHoldsEveryLine ==
    (Kind(dst.typ) = "slice" /\ pc = "returned" /\ err = Nil) =>
        /\ rd.eof
        /\ dst.v = want

\* C3: once the line source has signalled end-of-input, the sequence-decode loop
\* is over: the call has returned and neither runs nor appends any more.
C3_LoopEndsAtEndOfInput == ~(pc = "loop" /\ rd.eof)

\* C7: a Decode into a Record or a Mapping that returns a conversion error leaves
\* the destination as it was before the call.
C7_FailedDecodeKeepsDst ==
    [][(/\ pc \in {"idle", "returned"}
        /\ Kind(dst.typ) \in {"struct", "map"}
        /\ pc' = "returned"
        /\ err'.kind \in {"TypeError", "NumError"}) => dst' = dst]_vars

\* an attribute made only of letters, numbers and '-'
AttrOK(a) == Len(a) > 0 /\ \A i \in DOMAIN a : IsLetter(a[i]) \/ IsNumber(a[i]) \/ a[i] = Dash

\* C9: a line whose attributes are made only of letters, numbers and '-' is not
\* rejected with a bad-attribute error.
C9_DashInAttribute ==
    (/\ pc # "idle"
     /\ ~arg.eof
     /\ \A i \in DOMAIN arg.tuples : AttrOK(arg.tuples[i].attr)) =>
        ~(err.kind = "SyntaxError" /\ err.msg = "Invalid attribute name")

\* the values of attribute a among the tuples ts, in source order
RECURSIVE ValuesOf(_, _)
ValuesOf(ts, a) ==
    IF Len(ts) = 0 THEN <<>>
    ELSE IF ts[1].attr = a THEN <<ts[1].val>> \o ValuesOf(Tail(ts), a)
         ELSE ValuesOf(Tail(ts), a)

AttrsOf(ts) == {ts[i].attr : i \in DOMAIN ts}

\* what mapping m holds for key a, nothing when a is no key of it
Held(m, a) == IF a \in DOMAIN m THEN m[a] ELSE <<>>

\* a Decode into a Mapping has returned for a tokenized line in which a name repeats
RepeatedLineDecoded ==
    /\ pc = "returned"
    /\ Kind(dst.typ) = "map"
    /\ LineTokenized
    /\ Repeated(arg.tuples) # {}

C15_ConversionFailureIsTypeError ==
    (LineTokenized /\ err # Nil) => err.kind = "TypeError"

----------------------------------------------------------------------------
(* Claims about the tokenizer, under LexSpec.                              *)

\* parseLine's loop over ln, from a fresh Decoder
loopOver(ln) == scanLoop(startScan(NewDecoder), ln)

\* the last getPairs returned what parseLine returns as q
SameResult(q) == err = q.err /\ res = q.pairs

\* C10: a line that ends in the attribute, value-start or unquoted-value state
\* tokenizes to the same pairs as the line followed by one space.
C10_EndOfLineLikeSpace ==
    (/\ pc = "lexed"
     /\ loopOver(line).err = Nil
     /\ top(loopOver(line).state) \in {scanAttr, scanValueStart, scanValue}) =>
        SameResult(parseLine(NewDecoder, line \o <<Space>>))

\* ln opens a quoted value right after "a=" and holds a line terminator after the
\* opening quote with no quote (and no undecodable byte) in between
TerminatorInQuotes(ln) ==
    /\ Len(ln) > 3
    /\ SubSeq(ln, 1, 3) = <<"a", Equals, Quote>>
    /\ \E k \in 4..Len(ln) :
           /\ ln[k] = NL
           /\ \A i \in 4..(k - 1) : ln[i] \notin {Quote, BadByte}

Unterminated == err.kind = "SyntaxError" /\ err.msg = "Unterminated quoted string"

StartsWith(ln, p) == Len(ln) >= Len(p) /\ SubSeq(ln, 1, Len(p)) = p

\* the bytes of ln from index i up to the next whitespace or the end of the line
RECURSIVE Token(_, _)
Token(ln, i) ==
    IF i > Len(ln) \/ IsSpace(ln[i]) THEN <<>> ELSE <<ln[i]>> \o Token(ln, i + 1)

\* the number of pairs the tuples of prefix p make
PairsIn(p) == IF p = <<>> THEN 0 ELSE 1

TwoQuotes == <<"a", Equals, Quote, Quote>>

\* the last getPairs read a line made of prefix p and a tuple whose value begins
\* with two adjacent quotes
DoubledStart(p) == pc = "lexed" /\ StartsWith(line, p \o TwoQuotes)

\* C13: a value that begins with two adjacent quotes is tokenized as the text up to
\* the next whitespace or the end of the line with each doubled quote made a single
\* one, never as the empty value, whatever follows it in the line; the pairs of a
\* line without error are the tokenized ones.
C13_TwoQuotesStartAValue ==
    \A p \in LexPrefixes :
        DoubledStart(p) =>
            /\ Len(d.pairbuf) > PairsIn(p)
            /\ d.pairbuf[PairsIn(p) + 1] =
                   [attr |-> <<"a">>, val |-> Unquote(Token(line, Len(p) + 3))]
            /\ d.pairbuf[PairsIn(p) + 1].val # <<>>
            /\ err = Nil => res = d.pairbuf

\* a lone '' followed by a space, after an earlier tuple, was decoded as one quote
C13_Witness ==
    /\ DoubledStart(<<"a", Equals, "a", Space>>)
    /\ StartsWith(line, <<"a", Equals, "a", Space>> \o TwoQuotes \o <<Space>>)
    /\ err = Nil
    /\ res[2].val = <<Quote>>

\* The quoted value whose first byte is ln[i], read by the rules of the format:
\* [kind, val, offset], kind "value" (closing quote before whitespace or the end
\* of the line), "missing" (closing quote before the byte at offset) or "open"
\* (no closing quote, or a line terminator before it).
RECURSIVE Quoted(_, _, _)
Quoted(ln, i, acc) ==
    IF i > Len(ln) \/ ln[i] = NL THEN [kind |-> "open", val |-> acc, offset |-> i - 1]
    ELSE IF ln[i] # Quote THEN Quoted(ln, i + 1, Append(acc, ln[i]))
    ELSE IF i = Len(ln) \/ IsSpace(ln[i + 1]) THEN [kind |-> "value", val |-> acc, offset |-> i]
    ELSE IF ln[i + 1] = Quote THEN Quoted(ln, i + 2, Append(acc, Quote))
    ELSE [kind |-> "missing", val |-> acc, offset |-> i]

OneQuote == <<"a", Equals, Quote>>

\* the last getPairs read a line made of prefix p and a tuple with a quoted value
QuotedStart(p) ==
    /\ pc = "lexed"
    /\ StartsWith(line, p \o OneQuote)
    /\ Len(line) > Len(p) + 3
    /\ line[Len(p) + 4] # Quote

\* the pair of the tuple after prefix p was tokenized with value v
Tokenized(p, v) ==
    /\ Len(d.pairbuf) > PairsIn(p)
    /\ d.pairbuf[PairsIn(p) + 1] = [attr |-> <<"a">>, val |-> v]
    /\ err = Nil => res = d.pairbuf

\* C14: in a quoted value a quote followed by a quote is one literal quote and the
\* value goes on; a quote followed by whitespace or the end of the line ends the
\* value, which is the text between the two quotes with doubled quotes made
\* single; a quote followed by anything else is a missing-space error at the
\* offset of the byte that follows it.
C14_QuoteInsideQuotes ==
    \A p \in LexPrefixes :
        QuotedStart(p) =>
            /\ Quoted(line, Len(p) + 4, <<>>).kind = "value" =>
                   Tokenized(p, Quoted(line, Len(p) + 4, <<>>).val)
            /\ Quoted(line, Len(p) + 4, <<>>).kind = "missing" =>
                   err = errMissingSpace(Quoted(line, Len(p) + 4, <<>>).offset)

\* a quoted value with an escaped quote in it was closed at the end of the line,
\* after an earlier tuple
C14_Witness ==
    /\ QuotedStart(<<"a", Equals, "a", Space>>)
    /\ line = <<"a", Equals, "a", Space>> \o OneQuote \o <<"a", Quote, Quote, Quote>>
    /\ Tokenized(<<"a", Equals, "a", Space>>, <<"a", Quote>>)
    /\ err = Nil

\* the pairs after the first are the pairs parseLine returns as q, when both the
\* line and the line q was made from tokenize without error
SameAfterFirst(q) == (err = Nil /\ q.err = Nil) => Tail(res) = q.pairs

\* C17: the value decoded for a tuple depends on the tuple's own text alone: the
\* tuples that follow a first tuple decode to the same pairs as they do on a line
\* of their own, whatever the first tuple is.
C17_ValueOfItsOwnText ==
    \A p \in LexPrefixes \ {<<>>} :
        (pc = "lexed" /\ StartsWith(line, p \o <<"a", Equals>>)) =>
            SameAfterFirst(parseLine(NewDecoder, SubSeq(line, Len(p) + 1, Len(line))))

\* C18: the offset of every syntax error the tokenizer returns is the offset of a
\* byte of the line, and rendering the error returns a text.
C18_OffsetInsideLine ==
    /\ (pc # "ready" /\ err.kind = "SyntaxError") => (0 <= err.offset /\ err.offset < Len(line))
    /\ pc \in {"rendered", "panicked"} => dst.kind = "text"

----------------------------------------------------------------------------
(* The Encoder.  The sink is the bytes.Buffer Marshal hands to NewEncoder: *)
(* its Write appends and never fails.                                      *)

NewEncoder == [start |-> FALSE, out |-> <<>>]

validUTF8(b) == \A i \in DOMAIN b : b[i] # BadByte

\* the rune classes validAttr lets through
validAttrRune(r) == r # Quote /\ ~IsSpace(r) /\ (IsLetter(r) \/ IsNumber(r) \/ r = Dash)

validAttr(attr) == validUTF8(attr) /\ \A i \in DOMAIN attr : validAttrRune(attr[i])

validVal(val) == validUTF8(val) /\ \A i \in DOMAIN val : val[i] # NL

\* bytes.Replace(val, "'", "''", -1)
RECURSIVE doubleQuotes(_)
doubleQuotes(val) ==
    IF Len(val) = 0 THEN <<>>
    ELSE (IF val[1] = Quote THEN <<Quote, Quote>> ELSE <<val[1]>>) \o doubleQuotes(Tail(val))

hasSpace(val) == \E i \in DOMAIN val : IsSpace(val[i])

\* the value as writeTuple writes it: quotes doubled, wrapped in quotes if it has space
valueText(val) ==
    IF hasSpace(val) THEN <<Quote>> \o doubleQuotes(val) \o <<Quote>>
    ELSE doubleQuotes(val)

RECURSIVE FormatNat(_)
FormatNat(n) ==
    IF n < 10 THEN <<ToString(n)>> ELSE FormatNat(n \div 10) \o <<ToString(n % 10)>>

\* fmt.Fprint of a value of type t
Fprint(t, v) ==
    IF Kind(t) \in {"int", "uint"}
    THEN (IF v < 0 THEN <<Dash>> \o FormatNat(0 - v) ELSE FormatNat(v))
    ELSE v

\* a separator written before every tuple, the first of a call included
separateAlways(enc) == [enc EXCEPT !.out = @ \o <<Space>>, !.start = TRUE]

\* the separator writeTuple writes before every tuple but the first of a call
separate(enc) ==
    IF enc.start THEN [enc EXCEPT !.out = @ \o <<Space>>] ELSE [enc EXCEPT !.start = TRUE]

\* one turn of writeTuple's loop, after the separator: [e, err]
writeChecked(enc, attr, val) ==
    IF ~validAttr(attr) THEN [e |-> enc, err |-> SyntaxError("Invalid attribute", 0)]
    ELSE IF ~validVal(val) THEN [e |-> enc, err |-> SyntaxError("Invalid value", 0)]
         ELSE [e |-> [enc EXCEPT !.out = @ \o attr \o <<Equals>> \o valueText(val)],
               err |-> Nil]

\* one turn of writeTuple's loop: [e, err]
writeValue(enc, attr, val) == writeChecked(separate(enc), attr, val)

\* writeTuple's loop from value i on: [e, err]
RECURSIVE writeValues(_, _, _, _, _)
RECURSIVE writeRest(_, _, _, _, _)
writeValues(enc, attr, t, values, i) ==
    IF i > Len(values) THEN [e |-> enc, err |-> Nil]
    ELSE writeRest(writeValue(enc, attr, Fprint(t, values[i])), attr, t, values, i)

writeRest(w, attr, t, values, i) ==
    IF w.err # Nil THEN w ELSE writeValues(w.e, attr, t, values, i + 1)

\* writeTuple(k, v) for a v of type t: [e, err]
writeTuple(enc, attr, t, v) ==
    IF Kind(t) # "slice" THEN writeValues(enc, attr, t, <<v>>, 1)
    ELSE writeValues(enc, attr, Elem(t), v, 1)

\* encodeStruct from slot i on: [e, err]
RECURSIVE structSlots(_, _, _, _)
RECURSIVE structRest(_, _, _, _)
structSlots(enc, val, fields, i) ==
    IF i > Len(fields) THEN [e |-> enc, err |-> Nil]
    ELSE structRest(writeTuple(enc, fieldKey(fields[i]), fields[i].typ, val[i]),
                    val, fields, i)

structRest(w, val, fields, i) ==
    IF w.err # Nil THEN w ELSE structSlots(w.e, val, fields, i + 1)

encodeStruct(enc, val, fields) == structSlots(enc, val, fields, 1)

\* encodeMap over the keys in the order val.MapKeys() gave them, from key i on: [e, err]
RECURSIVE mapEntries(_, _, _, _, _)
RECURSIVE mapRest(_, _, _, _, _)
mapEntries(enc, val, t, keys, i) ==
    IF i > Len(keys) THEN [e |-> enc, err |-> Nil]
    ELSE mapRest(writeTuple(enc, keys[i], Elem(t), val[keys[i]]), val, t, keys, i)

mapRest(w, val, t, keys, i) ==
    IF w.err # Nil THEN w ELSE mapEntries(w.e, val, t, keys, i + 1)

\* the keys of val in the order rank puts them in; rank stands for the order
\* of Go's map iteration, which the language leaves open
MapKeys(val, rank) == SelectSeq(rank, LAMBDA k : k \in DOMAIN val)

encodeMap(enc, val, t, rank) == mapEntries(enc, val, t, MapKeys(val, rank), 1)

\* Encode's deferred e.start = false
deferred(w) == [w EXCEPT !.e = [@ EXCEPT !.start = FALSE]]

\* Encode of a value that is no slice: [e, err]
encodeValue(enc, t, v, rank) ==
    CASE Kind(t) = "struct" -> deferred(encodeStruct(enc, v, Fields(t)))
      [] Kind(t) = "map" -> deferred(encodeMap(enc, v, t, rank))
      [] OTHER -> deferred([e |-> enc, err |-> TypeError(t)])

\* what encodeSlice does with the error of an element's Encode: it is dropped
sliceError(errs) == Nil

\* encodeSlice from element i on: [e, err, errs], errs holding each element's error
RECURSIVE sliceElems(_, _, _, _, _, _)
RECURSIVE sliceRest(_, _, _, _, _, _)
sliceElems(enc, t, v, rank, i, errs) ==
    IF i > Len(v) THEN [e |-> enc, err |-> sliceError(errs), errs |-> errs]
    ELSE sliceRest(encodeValue(enc, Elem(t), v[i], rank), t, v, rank, i, errs)

sliceRest(w, t, v, rank, i, errs) == sliceElems(w.e, t, v, rank, i + 1, Append(errs, w.err))

encodeSlice(enc, t, v, rank) == sliceElems(enc, t, v, rank, 1, <<>>)

single(w) == [e |-> w.e, err |-> w.err, errs |-> <<w.err>>]

\* Encode: [e, err, errs]
Encode(enc, t, v, rank) ==
    IF Kind(t) = "slice" THEN deferred(encodeSlice(enc, t, v, rank))
    ELSE single(encodeValue(enc, t, v, rank))

----------------------------------------------------------------------------
(* EncSpec: one Encoder over one sink, and successive Encode calls.        *)

recA == << <<"a">>, <<1, 2>>, 3, <<"b">> >>
recB == << <<"a">>, <<>>, 0, <<"b", Space, Quote>> >>
recC == << <<"a">>, <<1>>, -1, <<NL>> >>
EncRecords == {recA, recB, recC}

seqA == << <<>>, 1, <<>> >>
seqB == << <<1, 2>>, 0, << <<"a">>, <<"b", Space>> >> >>
seqC == << <<>>, 2, << <<"a">>, <<NL>> >> >>
SeqRecords == {seqA, seqB, seqC}

EncKeys == {<<"a">>, <<"$">>}
EncMaps ==
    {(<<"a">> :> <<"b">>),
     (<<"a">> :> <<NL>>),
     (<<"a">> :> <<"b">> @@ <<"$">> :> <<"c">>)}

EncValues ==
    {[typ |-> "cfg", v |-> r] : r \in EncRecords}
        \cup {[typ |-> "seqCfg", v |-> r] : r \in SeqRecords}
        \cup {[typ |-> "map[string]string", v |-> m] : m \in EncMaps}
        \cup {[typ |-> "[]cfg", v |-> rs] : rs \in UNION {[1..k -> EncRecords] : k \in 0..MaxElems}}
        \cup {[typ |-> "int8", v |-> 1], [typ |-> "[]int8", v |-> <<1>>]}

\* the orders a map iteration may take
KeyOrders == {rank \in [1..Cardinality(EncKeys) -> EncKeys] : \A k \in EncKeys : \E i \in DOMAIN rank : rank[i] = k}

EncInit ==
    /\ e = NewEncoder
    /\ calls = 0
    /\ pc = "idle"
    /\ err = Nil
    /\ arg = [typ |-> "int8", v |-> 0]
    /\ res = <<>>
    /\ want = [lines |-> 0, failed |-> FALSE]
    /\ d = NewDecoder /\ rd = NoSource /\ dst = <<>> /\ add = <<>> /\ line = <<>>

Oks(errs) == Cardinality({i \in DOMAIN errs : errs[i] = Nil})

\* the state after an Encode that handed back w
EncodeReturns(w) ==
    /\ e' = w.e
    /\ err' = w.err
    /\ res' = w.errs
    /\ want' = [lines |-> want.lines + Oks(w.errs),
                failed |-> want.failed \/ Oks(w.errs) # Len(w.errs)]

\* e.Encode(v)
EncodeCall ==
    /\ pc \in {"idle", "returned"}
    /\ calls < MaxEncodes
    /\ \E v \in EncValues, rank \in KeyOrders :
          /\ EncodeReturns(Encode(e, v.typ, v.v, rank))
          /\ arg' = v
    /\ calls' = calls + 1
    /\ pc' = "returned"
    /\ UNCHANGED <<d, rd, dst, add, line>>

EncNext == EncodeCall

EncSpec == EncInit /\ [][EncNext]_vars

----------------------------------------------------------------------------
(* Claims about the encoder, under EncSpec.                                *)

\* C4: an Encode that returns an error has written nothing to the sink.
C4_FailedEncodeWritesNothing ==
    [][(calls' = calls + 1 /\ err' # Nil) => e'.out = e.out]_vars

\* the number of lines the sink holds
Lines(out) ==
    Count(out, NL) + (IF Len(out) > 0 /\ out[Len(out)] # NL THEN 1 ELSE 0)

\* C5: as long as no element has failed, the sink holds one line for every
\* element encoded, whether the elements came in one sequence or in several calls.
C5_OneLinePerElement == ~want.failed => Lines(e.out) = want.lines

\* C6: Encode of a sequence one of whose elements failed returns an error.
C6_SliceFailsWithElement ==
    (/\ pc = "returned"
     /\ Kind(arg.typ) = "slice"
     /\ \E i \in DOMAIN res : res[i] # Nil) => err # Nil

\* the tuples of slot f holding v, one per element if the slot is a sequence: the
\* alias if there is one or else the name, '=', and the value as text
SlotTuples(f, v) ==
    IF Kind(f.typ) = "slice"
    THEN [i \in DOMAIN v |-> fieldKey(f) \o <<Equals>> \o valueText(Fprint(Elem(f.typ), v[i]))]
    ELSE <<fieldKey(f) \o <<Equals>> \o valueText(Fprint(f.typ, v))>>

\* the tuples of the Record val from slot i on, in declared order
RECURSIVE RecordTuples(_, _, _)
RecordTuples(fields, val, i) ==
    IF i > Len(fields) THEN <<>>
    ELSE SlotTuples(fields[i], val[i]) \o RecordTuples(fields, val, i + 1)

\* the texts ts with exactly one space between neighbours
RECURSIVE Joined(_)
Joined(ts) ==
    IF Len(ts) = 0 THEN <<>>
    ELSE IF Len(ts) = 1 THEN ts[1]
         ELSE ts[1] \o <<Space>> \o Joined(Tail(ts))

RecordText(v) == Joined(RecordTuples(Fields(v.typ), v.v, 1))

\* C16: an Encode of a Record that returns no error has added to the sink the
\* Record's tuples in declared slot order, a sequence slot giving one tuple per
\* element, with exactly one space between tuples and none before or after.
C16_RecordTuplesInOrder ==
    [][(/\ calls' = calls + 1
        /\ Kind(arg'.typ) = "struct"
        /\ err' = Nil) => e'.out = e.out \o RecordText(arg')]_vars

\* Records whose first and last slots are sequences were encoded one after the
\* other: one with elements in both, then one with both empty
C16_Witness ==
    /\ calls = 2
    /\ arg = [typ |-> "seqCfg", v |-> seqA]
    /\ err = Nil
    /\ e.out = RecordText([typ |-> "seqCfg", v |-> seqB]) \o <<"N", Equals, "1">>

----------------------------------------------------------------------------
(* RoundTripSpec: Marshal of the mapping {"a": text}, then Unmarshal of     *)
(* what Marshal returned, which the line source hands over as one line.    *)

TextAlphabet == {"a", Quote, Space, NL}

RoundTripInit ==
    /\ arg \in Strings(TextAlphabet, MaxTextLen)
    /\ e = NewEncoder
    /\ d = NewDecoder
    /\ pc = "idle"
    /\ err = Nil
    /\ res = <<>>
    /\ line = <<>>
    /\ rd = NoSource /\ dst = <<>> /\ add = <<>> /\ want = <<>> /\ calls = 0

Marshalled(w) ==
    /\ e' = w.e
    /\ err' = w.err

\* Marshal(map[string]string{"a": arg})
RoundTripMarshal ==
    /\ pc = "idle"
    /\ Marshalled(Encode(NewEncoder, "map[string]string", (<<"a">> :> arg), <<<<"a">>>>))
    /\ pc' = "marshalled"
    /\ UNCHANGED <<d, rd, dst, add, line, arg, res, want, calls>>

Unmarshalled(g) ==
    /\ d' = g.d
    /\ rd' = g.rd
    /\ res' = g.pairs
    /\ err' = g.err
    /\ line' = g.line

\* getPairs of a new Decoder over the bytes Marshal returned
RoundTripGetPairs ==
    /\ pc = "marshalled"
    /\ err = Nil
    /\ Unmarshalled(getPairs(NewDecoder, NoSource, [eof |-> FALSE, line |-> e.out]))
    /\ pc' = "decoded"
    /\ UNCHANGED <<e, dst, add, arg, want, calls>>

RoundTripNext == RoundTripMarshal \/ RoundTripGetPairs

RoundTripSpec == RoundTripInit /\ [][RoundTripNext]_vars

\* C8: a value text with at least one quote and no line terminator is read back
\* from what the Emitter wrote for it exactly as it was.
C8_QuotesRoundTrip ==
    (pc = "decoded" /\ Count(arg, Quote) >= 1 /\ Count(arg, NL) = 0) =>
        /\ err = Nil
        /\ res = <<[attr |-> <<"a">>, val |-> arg]>>

====
